---- MODULE Spec2Model ----
(***************************************************************************)
(* Model of ReconocimientoService (src/api_app/recognition_service.py),    *)
(* the process-wide singleton behind the views of src/api_app/views.py.    *)
(*                                                                         *)
(* Every method is cut into steps at its accesses to shared state (the     *)
(* attributes of the singleton and the Data/ directory); purely local work *)
(* is folded into the step that follows it.  The service takes no lock, so *)
(* under a threaded server the steps of two requests interleave freely     *)
(* (ConcSpec).  Spec is the same program served by a single worker: one    *)
(* request at a time.                                                      *)
(***************************************************************************)
EXTENDS Integers, Sequences, FiniteSets, TLC

\* ------------------------------------------------------------------ bounds
\* Largest clock reading while photos are enrolled and the model is trained.
MaxTime == 1
\* Largest clock reading of the attendance sessions.
MaxSesion == 2
\* Largest number of files a holding area is allowed to grow to.
MaxFotos == 1

\* Identities and worker threads.
Nombres == {"ana", "beto"}
Hilos == {"h1", "h2"}
\* The worker of the single-worker deployment.
Unico == {"h1"}

\* settings.RECONOCIMIENTO_CONFIG['duracion_reconocimiento']: the clock of the
\* model counts in units of the window.
duracion_reconocimiento == 1
\* settings.RECONOCIMIENTO_CONFIG['confianza_threshold'].
confianza_threshold == 1
\* Distances a prediction may carry: one below the threshold, one at it.
Distancias == {confianza_threshold - 1, confianza_threshold}

VARIABLES
    now,                      \* time.time()
    image_paths,              \* self.image_paths: ordered identity list
    label_dict,               \* self.label_dict: name -> label
    next_label,               \* self.next_label
    face_recognizer,          \* learned state: set of <<label, identity trained under it>>
    model_file,               \* the artifact at MODEL_PATH
    data,                     \* DATA_PATH: holding area name -> set of file keys
    estudiantes_reconocidos,  \* self.estudiantes_reconocidos
    tiempos_reconocimiento,   \* self.tiempos_reconocimiento: name -> first-seen time
    llamadas,                 \* asistencia_service.registrar_asistencia calls, this session
    previas,                  \* identities registered in an earlier session
    modo,                     \* deployment: "unico" (one worker) or "hilos" (threads)
    ultima,                   \* the identity the last answered request trained, or ""
    pc,                       \* per thread: the line its request stands at
    frame                     \* per thread: the locals of its request

modelVars == <<image_paths, label_dict, next_label, face_recognizer, model_file>>
sesVars == <<estudiantes_reconocidos, tiempos_reconocimiento, llamadas, previas, modo,
             ultima>>
vars == <<now, image_paths, label_dict, next_label, face_recognizer, model_file, data,
          estudiantes_reconocidos, tiempos_reconocimiento, llamadas, previas, modo,
          ultima, pc, frame>>

\* ----------------------------------------------------------------- helpers
\* The locals of a request that has not started.
Vacio ==
    [op |-> "", estudiante |-> "", imagen |-> "", predijo |-> FALSE, label |-> 0, visto |-> "",
     confianza |-> 0, nombre |-> "", ahora |-> 0, notifico |-> FALSE,
     people_list |-> <<>>, faces |-> {}, usado |-> "", ret |-> "",
     antes |-> [face_recognizer |-> {}, image_paths |-> <<>>, label_dict |-> <<>>,
                next_label |-> 0, model_file |-> [existe |-> FALSE, modelo |-> {}]]]

\* ModelState: the classifier, the registry, the artifact.
Estado ==
    [face_recognizer |-> face_recognizer, image_paths |-> image_paths,
     label_dict |-> label_dict, next_label |-> next_label, model_file |-> model_file]

\* ModelState as a training request finds it, kept for the single worker, where
\* no other request changes it under way.
Antes == IF modo = "unico" THEN Estado ELSE Vacio.antes

\* A dict with one more (or one replaced) entry.
Put(d, k, v) == [x \in DOMAIN d \cup {k} |-> IF x = k THEN v ELSE d[x]]

\* The empty dict.
EmptyDict == <<>>

\* {name: idx for idx, name in enumerate(seq)}
Enumerate(seq) ==
    [n \in {seq[i] : i \in 1..Len(seq)} |->
        (CHOOSE i \in 1..Len(seq) : seq[i] = n /\ \A j \in 1..(i-1) : seq[j] # n) - 1]

\* Every listing order os.listdir may give for a set of entries.
Listados(S) ==
    {s \in [1..Cardinality(S) -> S] : \A i, j \in 1..Cardinality(S) : i # j => s[i] # s[j]}

\* PyIndex counting from 1, as TLA+ sequences do.
PyIndexDesde1(seq, i) == IF i >= 1 /\ i <= Len(seq) THEN seq[i] ELSE "IndexError"

\* Python's seq[i]: a negative index counts from the end; "IndexError" out of range.
PyIndex(seq, i) ==
    IF i >= 0 /\ i < Len(seq) THEN seq[i + 1]
    ELSE IF i < 0 /\ -i <= Len(seq) THEN seq[Len(seq) + i + 1]
    ELSE "IndexError"

\* The request of thread t ends with result r; its locals stay until the view answers.
Fin(t, r, f) ==
    /\ pc' = [pc EXCEPT ![t] = "fin"]
    /\ frame' = [frame EXCEPT ![t] = [f EXCEPT !.ret = r]]

\* The request of thread t moves on to line l.
Goto(t, l, f) ==
    /\ pc' = [pc EXCEPT ![t] = l]
    /\ frame' = [frame EXCEPT ![t] = f]

\* -------------------------------------------------------------------- Init
\* _initialize, lines 23-56, on a fresh installation: no artifact, DATA_PATH empty.
Inicio(m) ==
    /\ now = 0
    /\ image_paths = <<>>
    /\ label_dict = EmptyDict
    /\ next_label = 0
    /\ face_recognizer = {}
    /\ model_file = [existe |-> FALSE, modelo |-> {}]
    /\ data = <<>>
    /\ estudiantes_reconocidos = {}
    /\ tiempos_reconocimiento = EmptyDict
    /\ llamadas = [n \in Nombres |-> 0]
    /\ previas = {}
    /\ modo = m
    /\ ultima = ""
    /\ pc = [t \in Hilos |-> "idle"]
    /\ frame = [t \in Hilos |-> Vacio]

Init == Inicio("unico")

\* ------------------------------------------------------ reconocer_rostro
\* What face_recognizer.predict may answer: a label it was trained on, with the
\* identity whose photos it learned under that label, or -1, cv2's "no match".
Predicciones == face_recognizer \cup {<<-1, "">>}

\* Acepta with the comparison of the distance turned around.
AceptaAlReves(label, confianza, umbral, paths) ==
    confianza > umbral /\ label < Len(paths)

\* The acceptance test of line 112 (Python's `label < len(...)` has no lower bound).
Acepta(label, confianza, umbral, paths) ==
    confianza < umbral /\ label < Len(paths)

\* Thresholds around the configured one.
Umbrales == (confianza_threshold - 1)..(confianza_threshold + 1)

\* Lines 112-135: the answer for a predicted label and distance, under threshold
\* umbral and registry paths ("error": line 113 raised IndexError).
Decidir(label, confianza, umbral, paths) ==
    IF Acepta(label, confianza, umbral, paths)
    THEN IF PyIndex(paths, label) = "IndexError" THEN "error" ELSE "reconocido"
    ELSE "desconocido"

\* The photos a request may carry: undecodable, decodable without a face,
\* decodable with a face.
Imagenes == {"ilegible", "sin_rostro", "rostro"}

\* detectar_rostro, lines 73-85: the number of boxes found in a decodable photo.
Detectados(img) == IF img = "rostro" THEN 1 ELSE 0

\* SinRostro with the test of line 100 never taken.
SinRostroNunca(faces) == FALSE

\* The test of line 100.
SinRostro(faces) == faces = 0

\* Lines 97-108: decode, detect, crop, predict.
Rec97(t) ==
    /\ pc[t] = "idle"
    /\ UNCHANGED <<now, modelVars, data, sesVars>>
    /\ \E img \in Imagenes :
        LET f == [Vacio EXCEPT !.op = "reconocer", !.imagen = img] IN
        CASE img = "ilegible" -> Fin(t, "error", f)
          [] img # "ilegible" /\ SinRostro(Detectados(img)) -> Fin(t, "sin_rostro", f)
          [] OTHER ->
              IF face_recognizer = {}
              THEN Fin(t, "error", f)
              ELSE \E p \in Predicciones, c \in Distancias :
                      Goto(t, "r112", [f EXCEPT !.predijo = TRUE, !.label = p[1],
                                                !.visto = p[2], !.confianza = c])

\* Lines 112-113: the decision and the name lookup.
Rec112(t) ==
    /\ pc[t] = "r112"
    /\ UNCHANGED <<now, modelVars, data, sesVars>>
    /\ LET f == frame[t]
           d == Decidir(f.label, f.confianza, confianza_threshold, image_paths) IN
        IF d = "reconocido"
        THEN Goto(t, "r116", [f EXCEPT !.nombre = PyIndex(image_paths, f.label)])
        ELSE Fin(t, d, f)

\* Vencido with the comparison of line 118 made strict.
VencidoEstricto(t0, ahora) == ahora - t0 > duracion_reconocimiento

\* The test of line 118: the window has elapsed.
Vencido(t0, ahora) == ahora - t0 >= duracion_reconocimiento

\* Lines 116-118: first sighting, or the window test.
Rec116(t) ==
    /\ pc[t] = "r116"
    /\ UNCHANGED <<now, modelVars, data, estudiantes_reconocidos, llamadas, previas, modo,
                   ultima>>
    /\ LET f == [frame[t] EXCEPT !.ahora = now]
           n == frame[t].nombre IN
        IF n \notin DOMAIN tiempos_reconocimiento
        THEN /\ tiempos_reconocimiento' = Put(tiempos_reconocimiento, n, now)
             /\ Fin(t, "reconocido", f)
        ELSE /\ UNCHANGED tiempos_reconocimiento
             /\ IF Vencido(tiempos_reconocimiento[n], now)
                THEN Goto(t, "r119", f)
                ELSE Fin(t, "reconocido", f)

\* SinRegistrar with the membership test of line 119 left out.
SinRegistrarSiempre(n) == TRUE

\* The test of line 119: not registered yet in this session.
SinRegistrar(n) == n \notin estudiantes_reconocidos

\* Line 119.
Rec119(t) ==
    /\ pc[t] = "r119"
    /\ UNCHANGED <<now, modelVars, data, sesVars>>
    /\ IF SinRegistrar(frame[t].nombre)
       THEN Goto(t, "r120", frame[t])
       ELSE Fin(t, "reconocido", frame[t])

\* Line 120.
Rec120(t) ==
    /\ pc[t] = "r120"
    /\ estudiantes_reconocidos' = estudiantes_reconocidos \cup {frame[t].nombre}
    /\ UNCHANGED <<now, modelVars, data, tiempos_reconocimiento, llamadas, previas, modo,
                   ultima>>
    /\ Goto(t, "r122", frame[t])

\* Line 122: the notifier is called; it may raise, which ends the request in error.
Rec122(t) ==
    /\ pc[t] = "r122"
    /\ llamadas' = [llamadas EXCEPT ![frame[t].nombre] = @ + 1]
    /\ UNCHANGED <<now, modelVars, data, estudiantes_reconocidos,
                   tiempos_reconocimiento, previas, modo, ultima>>
    /\ \E ok \in BOOLEAN :
        Fin(t, IF ok THEN "reconocido" ELSE "error", [frame[t] EXCEPT !.notifico = TRUE])

\* -------------------------------------------------- reset_reconocimientos
\* Limpiados with the clear() of line 318 left out.
LimpiadosOlvidado(s) == s

\* What line 318 leaves in the registered set.
Limpiados(s) == {}

\* Line 318: a new session starts.
Reset318(t) ==
    /\ pc[t] = "idle"
    /\ estudiantes_reconocidos' = Limpiados(estudiantes_reconocidos)
    /\ previas' = previas \cup {n \in Nombres : llamadas[n] > 0}
    /\ llamadas' = [n \in Nombres |-> 0]
    /\ UNCHANGED <<now, modelVars, data, tiempos_reconocimiento, modo, ultima>>
    /\ Goto(t, "x319", [Vacio EXCEPT !.op = "reset"])

\* Reset319 clearing the identity list as well.
Reset319Borra(t) ==
    /\ pc[t] = "x319"
    /\ tiempos_reconocimiento' = EmptyDict
    /\ image_paths' = <<>>
    /\ UNCHANGED <<now, label_dict, next_label, face_recognizer, model_file, data,
                   estudiantes_reconocidos, llamadas, previas, modo, ultima>>
    /\ Fin(t, "ok", frame[t])

\* Line 319.
Reset319(t) ==
    /\ pc[t] = "x319"
    /\ tiempos_reconocimiento' = EmptyDict
    /\ UNCHANGED <<now, modelVars, data, estudiantes_reconocidos, llamadas, previas, modo,
                   ultima>>
    /\ Fin(t, "ok", frame[t])

\* --------------------------------------------------- guardar_foto_registro
\* The key of line 174-175: the clock reading names the file.
Clave(ahora) == ahora

\* Lines 149-171: the holding area is created, then the photo is decoded and a
\* face is looked for.  The area is capped at MaxFotos files.
Guardar149(t) ==
    /\ pc[t] = "idle"
    /\ UNCHANGED <<now, modelVars, sesVars>>
    /\ \E n \in Nombres, img \in Imagenes :
        LET f == [Vacio EXCEPT !.op = "guardar", !.estudiante = n, !.imagen = img] IN
        /\ n \in DOMAIN data => (Cardinality(data[n]) < MaxFotos \/ Clave(now) \in data[n])
        /\ data' = IF n \in DOMAIN data THEN data ELSE Put(data, n, {})
        /\ IF img = "rostro" THEN Goto(t, "g174", f) ELSE Fin(t, "fallo", f)

\* Lines 174-178: the patch is written under the timestamp.  cv2.imwrite into a
\* directory that is gone writes nothing and raises nothing.
Guardar174(t) ==
    /\ pc[t] = "g174"
    /\ UNCHANGED <<now, modelVars, sesVars>>
    /\ LET n == frame[t].estudiante IN
        /\ data' = IF n \in DOMAIN data THEN Put(data, n, data[n] \cup {Clave(now)}) ELSE data
        /\ Fin(t, "ok", [frame[t] EXCEPT !.ahora = now])

\* ---------------------------------------------------- entrenar_incremental
\* Lines 190-193: the holding area must exist.
Inc192(t) ==
    /\ pc[t] = "idle"
    /\ UNCHANGED <<now, modelVars, data, sesVars>>
    /\ \E n \in Nombres :
        LET f == [Vacio EXCEPT !.op = "incremental", !.estudiante = n, !.antes = Antes] IN
        IF n \in DOMAIN data THEN Goto(t, "i196", f) ELSE Fin(t, "sin_carpeta", f)

\* SiguienteLabel with the increment of line 199 left out.
SiguienteLabelOlvidado(nl) == nl

\* Line 199: the next free label after nl has been given out.
SiguienteLabel(nl) == nl + 1

\* Inc196 with the membership test of line 196 left out: a label is allocated on
\* every call.
Inc196Reasigna(t) ==
    /\ pc[t] = "i196"
    /\ UNCHANGED <<now, face_recognizer, model_file, data, sesVars>>
    /\ LET n == frame[t].estudiante IN
        /\ label_dict' = Put(label_dict, n, next_label)
        /\ image_paths' = Append(image_paths, n)
        /\ next_label' = SiguienteLabel(next_label)
        /\ Goto(t, "i208", [frame[t] EXCEPT !.label = next_label])

\* Lines 195-201: the label is allocated, before any photo is looked at.
Inc196(t) ==
    /\ pc[t] = "i196"
    /\ UNCHANGED <<now, face_recognizer, model_file, data, sesVars>>
    /\ LET n == frame[t].estudiante IN
        IF n \notin DOMAIN label_dict
        THEN /\ label_dict' = Put(label_dict, n, next_label)
             /\ image_paths' = Append(image_paths, n)
             /\ next_label' = SiguienteLabel(next_label)
             /\ Goto(t, "i208", [frame[t] EXCEPT !.label = next_label])
        ELSE /\ UNCHANGED <<label_dict, image_paths, next_label>>
             /\ Goto(t, "i208", [frame[t] EXCEPT !.label = label_dict[n]])

\* Lines 203-217: the photos of the holding area are loaded.
Inc208(t) ==
    /\ pc[t] = "i208"
    /\ UNCHANGED <<now, modelVars, data, sesVars>>
    /\ LET n == frame[t].estudiante IN
        IF n \notin DOMAIN data THEN Fin(t, "error", frame[t])
        ELSE IF data[n] = {} THEN Fin(t, "fallo", frame[t])
        ELSE Goto(t, "i221", [frame[t] EXCEPT !.faces = {<<n, k>> : k \in data[n]}])

\* Line 221: update extends the learned state, or raises.
Inc221(t) ==
    /\ pc[t] = "i221"
    /\ UNCHANGED <<now, image_paths, label_dict, next_label, model_file, data, sesVars>>
    /\ \E ok \in BOOLEAN :
        IF ok
        THEN /\ face_recognizer' =
                    face_recognizer \cup {<<frame[t].label, frame[t].estudiante>>}
             /\ Goto(t, "i222", [frame[t] EXCEPT !.usado = "update"])
        ELSE /\ UNCHANGED face_recognizer
             /\ Goto(t, "i225", frame[t])

\* Line 222: the artifact is written; a failure lands in the bare except too.
Inc222(t) ==
    /\ pc[t] = "i222"
    /\ UNCHANGED <<now, image_paths, label_dict, next_label, face_recognizer, data, sesVars>>
    /\ \E ok \in BOOLEAN :
        IF ok
        THEN /\ model_file' = [existe |-> TRUE, modelo |-> face_recognizer]
             /\ Goto(t, "i229", frame[t])
        ELSE /\ UNCHANGED model_file
             /\ Goto(t, "i225", frame[t])

\* Line 225: train replaces the learned state by this batch, or raises.
Inc225(t) ==
    /\ pc[t] = "i225"
    /\ UNCHANGED <<now, image_paths, label_dict, next_label, model_file, data, sesVars>>
    /\ \E ok \in BOOLEAN :
        IF ok
        THEN /\ face_recognizer' = {<<frame[t].label, frame[t].estudiante>>}
             /\ Goto(t, "i226", [frame[t] EXCEPT !.usado = "train"])
        ELSE /\ UNCHANGED face_recognizer
             /\ Fin(t, "error", frame[t])

\* Line 226.
Inc226(t) ==
    /\ pc[t] = "i226"
    /\ UNCHANGED <<now, image_paths, label_dict, next_label, face_recognizer, data, sesVars>>
    /\ \E ok \in BOOLEAN :
        IF ok
        THEN /\ model_file' = [existe |-> TRUE, modelo |-> face_recognizer]
             /\ Goto(t, "i229", frame[t])
        ELSE /\ UNCHANGED model_file
             /\ Fin(t, "error", frame[t])

\* Inc229 with the os.rmdir of line 234 left out.
Inc229SinRmdir(t) ==
    /\ pc[t] = "i229"
    /\ UNCHANGED <<now, modelVars, sesVars>>
    /\ LET n == frame[t].estudiante
           ks == {p[2] : p \in frame[t].faces} IN
        /\ data' = IF n \in DOMAIN data THEN [data EXCEPT ![n] = @ \ ks] ELSE data
        /\ Fin(t, IF n \in DOMAIN data /\ ks \subseteq data[n] THEN "ok" ELSE "error",
               frame[t])

\* Lines 228-236: the loaded files are removed, then the directory if it is empty.
\* A file that is gone makes os.remove raise part way through the loop.
Inc229(t) ==
    /\ pc[t] = "i229"
    /\ UNCHANGED <<now, modelVars, sesVars>>
    /\ LET n == frame[t].estudiante
           ks == {p[2] : p \in frame[t].faces} IN
        IF n \in DOMAIN data /\ ks \subseteq data[n]
        THEN /\ data' = IF data[n] \ ks = {}
                        THEN [x \in DOMAIN data \ {n} |-> data[x]]
                        ELSE [data EXCEPT ![n] = @ \ ks]
             /\ Fin(t, "ok", frame[t])
        ELSE /\ \E gone \in SUBSET (IF n \in DOMAIN data THEN ks \cap data[n] ELSE {}) :
                    data' = IF n \in DOMAIN data THEN [data EXCEPT ![n] = @ \ gone] ELSE data
             /\ Fin(t, "error", frame[t])

\* ------------------------------------------------ entrenar_modelo_completo
\* The position of a name in a listing, counted from 0.
Indice(seq, n) == (CHOOSE i \in 1..Len(seq) : seq[i] = n) - 1

\* Com256 with the fresh recognizer of line 282 created before the listing is
\* looked at.
Com256Reinicia(t) ==
    /\ pc[t] = "idle"
    /\ face_recognizer' = {}
    /\ UNCHANGED <<now, image_paths, label_dict, next_label, model_file, data, sesVars>>
    /\ \E people_list \in Listados(DOMAIN data) :
        LET f == [Vacio EXCEPT !.op = "completo", !.people_list = people_list,
                               !.antes = Antes] IN
        IF people_list = <<>> THEN Fin(t, "fallo", f) ELSE Goto(t, "c266", f)

\* Lines 255-260: the holding areas are listed, in the order os.listdir gives.
Com256(t) ==
    /\ pc[t] = "idle"
    /\ UNCHANGED <<now, modelVars, data, sesVars>>
    /\ \E people_list \in Listados(DOMAIN data) :
        LET f == [Vacio EXCEPT !.op = "completo", !.people_list = people_list,
                               !.antes = Antes] IN
        IF people_list = <<>> THEN Fin(t, "fallo", f) ELSE Goto(t, "c266", f)

\* Lines 262-279: the photos of every listed area are loaded.
Com266(t) ==
    /\ pc[t] = "c266"
    /\ UNCHANGED <<now, modelVars, data, sesVars>>
    /\ LET pl == frame[t].people_list
           dirs == {pl[i] : i \in 1..Len(pl)} IN
        IF ~(dirs \subseteq DOMAIN data) THEN Fin(t, "error", frame[t])
        ELSE LET faces == UNION {{<<n, k>> : k \in data[n]} : n \in dirs} IN
             IF faces = {} THEN Fin(t, "fallo", frame[t])
             ELSE Goto(t, "c282", [frame[t] EXCEPT !.faces = faces])

\* Lines 282-283: a fresh recognizer replaces the old one and is trained, or
\* train raises and the fresh, empty one stays.
Com282(t) ==
    /\ pc[t] = "c282"
    /\ UNCHANGED <<now, image_paths, label_dict, next_label, model_file, data, sesVars>>
    /\ \E ok \in BOOLEAN :
        IF ok
        THEN /\ face_recognizer' =
                    {<<Indice(frame[t].people_list, p[1]), p[1]>> : p \in frame[t].faces}
             /\ Goto(t, "c284", [frame[t] EXCEPT !.usado = "train"])
        ELSE /\ face_recognizer' = {}
             /\ Fin(t, "error", frame[t])

\* Lines 284-286: the registry is replaced by the listing.
Com284(t) ==
    /\ pc[t] = "c284"
    /\ image_paths' = frame[t].people_list
    /\ label_dict' = Enumerate(frame[t].people_list)
    /\ next_label' = Len(frame[t].people_list)
    /\ UNCHANGED <<now, face_recognizer, model_file, data, sesVars>>
    /\ Goto(t, "c289", frame[t])

\* Line 289.
Com289(t) ==
    /\ pc[t] = "c289"
    /\ UNCHANGED <<now, image_paths, label_dict, next_label, face_recognizer, data, sesVars>>
    /\ \E ok \in BOOLEAN :
        IF ok
        THEN /\ model_file' = [existe |-> TRUE, modelo |-> face_recognizer]
             /\ Goto(t, "c292", frame[t])
        ELSE /\ UNCHANGED model_file
             /\ Fin(t, "error", frame[t])

\* Lines 291-296: every listed area is emptied and removed.
Com292(t) ==
    /\ pc[t] = "c292"
    /\ UNCHANGED <<now, modelVars, sesVars>>
    /\ LET pl == frame[t].people_list
           dirs == {pl[i] : i \in 1..Len(pl)} IN
        /\ data' = [x \in DOMAIN data \ dirs |-> data[x]]
        /\ Fin(t, IF dirs \subseteq DOMAIN data THEN "ok" ELSE "error", frame[t])

\* ------------------------------------------------------------- environment
\* The identity a request of locals f has trained incrementally with success, or
\* "".  It is kept for the single worker, where requests follow one another.
Entrenado(f) ==
    IF modo = "unico" /\ f.op = "incremental" /\ f.ret = "ok" THEN f.estudiante ELSE ""

\* The view hands the result to the client; the thread is free again.
Responder(t) ==
    /\ pc[t] = "fin"
    /\ pc' = [pc EXCEPT ![t] = "idle"]
    /\ frame' = [frame EXCEPT ![t] = Vacio]
    /\ ultima' = Entrenado(frame[t])
    /\ UNCHANGED <<now, modelVars, data, estudiantes_reconocidos, tiempos_reconocimiento,
                   llamadas, previas, modo>>

\* The process is restarted between two requests: _initialize, lines 23-56, runs
\* again on what the disk holds.
Reiniciar ==
    /\ \A t \in Hilos : pc[t] = "idle"
    /\ face_recognizer' = IF model_file.existe THEN model_file.modelo ELSE {}
    /\ \E listado \in Listados(DOMAIN data) :
        LET paths == IF model_file.existe THEN listado ELSE <<>> IN
        /\ image_paths' = paths
        /\ label_dict' = Enumerate(paths)
        /\ next_label' = Len(paths)
    /\ estudiantes_reconocidos' = {}
    /\ tiempos_reconocimiento' = EmptyDict
    /\ llamadas' = [n \in Nombres |-> 0]
    /\ previas' = {}
    /\ ultima' = ""
    /\ UNCHANGED <<now, model_file, data, modo, pc, frame>>

\* The clock advances, up to max.
Reloj(max) ==
    /\ now < max
    /\ now' = now + 1
    /\ UNCHANGED <<modelVars, data, sesVars, pc, frame>>

\* No request is under way.
Libre == \A t \in Hilos : pc[t] = "idle"

\* A single worker reads the clock at most once per request, so for it the clock
\* advances between requests.
Tic == Libre /\ Reloj(MaxTime)

TicSesion == Libre /\ Reloj(MaxSesion)

\* Under a threaded server the clock advances at any point of a request.
TicSesionConc == Reloj(MaxSesion)

\* The steps of a recognition request.
PasoRec(t) ==
    \/ Rec97(t) \/ Rec112(t) \/ Rec116(t) \/ Rec119(t) \/ Rec120(t) \/ Rec122(t)

\* The steps of a session reset.
PasoReset(t) == Reset318(t) \/ Reset319(t)

\* The steps of an enrollment request.
PasoGuardar(t) == Guardar149(t) \/ Guardar174(t)

\* The steps of an incremental training request.
PasoInc(t) ==
    \/ Inc192(t) \/ Inc196(t) \/ Inc208(t) \/ Inc221(t) \/ Inc222(t) \/ Inc225(t)
    \/ Inc226(t) \/ Inc229(t)

\* The steps of a full retraining request.
PasoCom(t) ==
    \/ Com256(t) \/ Com266(t) \/ Com282(t) \/ Com284(t) \/ Com289(t) \/ Com292(t)

\* The steps of the enrollment and training requests.
PasoEntrenar(t) == PasoGuardar(t) \/ PasoInc(t) \/ PasoCom(t)

\* ---------------------------------------------------------- specifications
\* A single worker serving enrollment, training and recognition requests, from a
\* fresh installation.
Next ==
    \/ Tic
    \/ \E t \in Unico : PasoRec(t) \/ PasoEntrenar(t) \/ Responder(t)

Spec == Init /\ [][Next]_vars

\* The same worker with process restarts between requests.
NextReinicio == Next \/ Reiniciar

ReinicioSpec == Init /\ [][NextReinicio]_vars

\* The single worker serving session resets as well, between the enrollment,
\* training and recognition requests.
NextConReset == Next \/ \E t \in Unico : PasoReset(t)

ConResetSpec == Init /\ [][NextConReset]_vars

\* Under a threaded server the requests of two threads interleave step by step.
\* In the concurrent specifications the requests all arrive within one clock
\* reading, where no recognition gets past the window test of line 118.
PasoLector(t) == Rec97(t) \/ Rec112(t) \/ Rec116(t)

\* One thread enrolls and trains while the other serves recognition requests.
NextConc ==
    \/ \E t \in Unico : PasoEntrenar(t) \/ Responder(t)
    \/ \E t \in Hilos \ Unico : PasoLector(t) \/ Responder(t)

InitConc == Inicio("hilos")

ConcSpec == InitConc /\ [][NextConc]_vars

\* Both threads serve training requests; one of them also enrolls.
NextConcEnt ==
    \/ \E t \in Unico : PasoGuardar(t)
    \/ \E t \in Hilos : PasoInc(t) \/ PasoCom(t) \/ Responder(t)

ConcEntSpec == InitConc /\ [][NextConcEnt]_vars

\* Both threads serve enrollment requests while the clock runs.
NextConcGuardar ==
    \/ Reloj(MaxTime)
    \/ \E t \in Hilos : PasoGuardar(t) \/ Responder(t)

ConcGuardarSpec == InitConc /\ [][NextConcGuardar]_vars

\* The model a process finds at start when an earlier process trained the
\* identities of listing s, in that order.
ModeloDe(s) == {<<i - 1, s[i]>> : i \in 1..Len(s)}

\* Every listing of every set of holding areas.
TodosListados == UNION {Listados(S) : S \in SUBSET Nombres}

\* _initialize, lines 39-44: the process starts on a disk that holds an artifact;
\* the registry is whatever os.listdir gives for DATA_PATH.
InicioSes(m) ==
    /\ now = 0
    /\ \E s \in TodosListados \ {<<>>}, listado \in TodosListados :
        /\ model_file = [existe |-> TRUE, modelo |-> ModeloDe(s)]
        /\ face_recognizer = ModeloDe(s)
        /\ data = [n \in {listado[i] : i \in 1..Len(listado)} |-> {}]
        /\ image_paths = listado
        /\ label_dict = Enumerate(listado)
        /\ next_label = Len(listado)
    /\ estudiantes_reconocidos = {}
    /\ tiempos_reconocimiento = EmptyDict
    /\ llamadas = [n \in Nombres |-> 0]
    /\ previas = {}
    /\ modo = m
    /\ ultima = ""
    /\ pc = [t \in Hilos |-> "idle"]
    /\ frame = [t \in Hilos |-> Vacio]

InitSes == InicioSes("unico")

\* Attendance sessions on a trained model: a single worker serving recognition
\* requests and session resets.
NextSes ==
    \/ TicSesion
    \/ \E t \in Unico : PasoRec(t) \/ PasoReset(t) \/ Responder(t)

SesSpec == InitSes /\ [][NextSes]_vars

\* The same with threads.
NextSesConc ==
    \/ TicSesionConc
    \/ \E t \in Hilos : PasoRec(t) \/ PasoReset(t) \/ Responder(t)

InitSesConc == InicioSes("hilos")

ConcSesSpec == InitSesConc /\ [][NextSesConc]_vars

\* ------------------------------------------------------------------ claims
\* A recognition request of thread t has resolved an identity and stands past
\* the clock reading of lines 117-118.
Reconocio(t) ==
    /\ pc[t] = "fin"
    /\ frame[t].op = "reconocer"
    /\ frame[t].nombre # ""

\* Thread t stands at the end of a recognition of identity n that read the clock
\* when the window of n had elapsed.
FueraDePlazo(t, n) ==
    /\ Reconocio(t)
    /\ frame[t].nombre = n
    /\ n \in DOMAIN tiempos_reconocimiento
    /\ frame[t].ahora - tiempos_reconocimiento[n] >= duracion_reconocimiento

\* C1: between two resets (or from process start to the first reset) the
\* attendance notifier is called at most once for each identity, however often
\* the identity is recognized and however much time passes.
Theorem_C1 == \A n \in Nombres : llamadas[n] <= 1

\* C1: an identity already notified in this session is recognized again, after
\* its window, and the notifier is not called.
Witness_C1 ==
    \E t \in Hilos, n \in Nombres :
        /\ FueraDePlazo(t, n)
        /\ ~frame[t].notifico
        /\ frame[t].ret = "reconocido"
        /\ llamadas[n] = 1

\* C2, first part: a recognition calls the notifier only when the window has
\* elapsed since the first sighting t0 (never at the first sighting itself).
NotificaSoloVencido ==
    \A t \in Hilos :
        (pc[t] = "fin" /\ frame[t].notifico) =>
            /\ frame[t].nombre \in DOMAIN tiempos_reconocimiento
            /\ frame[t].ahora - tiempos_reconocimiento[frame[t].nombre]
                   >= duracion_reconocimiento

\* C2, second part: once a recognition has read the clock at t0 + window or
\* later, the notifier has been called (by it, the first such, or before it).
VencidoNotifica ==
    \A t \in Hilos, n \in Nombres : FueraDePlazo(t, n) => llamadas[n] = 1

\* C2, third part: a later recognition does not refresh t0.
T0Fijo ==
    \A n \in DOMAIN tiempos_reconocimiento :
        n \in DOMAIN tiempos_reconocimiento' =>
            tiempos_reconocimiento'[n] = tiempos_reconocimiento[n]

\* C2: for an identity first recognized at t0, no recognition at t with
\* t - t0 < duration_window calls the notifier (the first included), the first
\* recognition at t with t - t0 >= duration_window calls it, and t0 is fixed by
\* the first recognition.
Theorem_C2 == [][T0Fijo /\ NotificaSoloVencido' /\ VencidoNotifica']_vars

\* C2: the notifier is called by a recognition exactly one window after the
\* first sighting, after a second sighting inside the window that called nothing.
Witness_C2 ==
    \E t \in Hilos :
        /\ pc[t] = "fin"
        /\ frame[t].notifico
        /\ frame[t].ahora = tiempos_reconocimiento[frame[t].nombre] + duracion_reconocimiento
        /\ llamadas[frame[t].nombre] = 1

\* C3: reset_session puts every identity back to not_seen, and an identity that
\* was registered before a reset runs the cycle again: a first-seen time of the
\* new session, then one notifier call, no more, once the window has elapsed.
Theorem_C3 ==
    /\ \A t \in Hilos :
        (pc[t] = "fin" /\ frame[t].op = "reset") =>
            /\ estudiantes_reconocidos = {}
            /\ DOMAIN tiempos_reconocimiento = {}
            /\ \A n \in Nombres : llamadas[n] = 0
    /\ (\A t \in Hilos : pc[t] # "x319") =>
        \A n \in previas :
            /\ llamadas[n] <= 1
            /\ n \in DOMAIN tiempos_reconocimiento =>
                   tiempos_reconocimiento[n] >= duracion_reconocimiento
            /\ \A t \in Hilos : FueraDePlazo(t, n) => llamadas[n] = 1

\* C3: an identity registered in an earlier session has been notified once more
\* in the session after the reset.
Witness_C3 ==
    \E t \in Hilos, n \in previas :
        /\ FueraDePlazo(t, n)
        /\ frame[t].notifico
        /\ llamadas[n] = 1

\* No request is being served: every earlier call has returned.
EntreLlamadas == \A t \in Hilos : pc[t] \in {"idle", "fin"}

\* The registry is consistent: distinct names, label = index, labels exactly
\* 0..len-1, next_label = len.
RegistroConsistente ==
    /\ \A i, j \in 1..Len(image_paths) : i # j => image_paths[i] # image_paths[j]
    /\ DOMAIN label_dict = {image_paths[i] : i \in 1..Len(image_paths)}
    /\ \A i \in 1..Len(image_paths) : label_dict[image_paths[i]] = i - 1
    /\ {label_dict[n] : n \in DOMAIN label_dict} = 0..(Len(image_paths) - 1)
    /\ next_label = Len(image_paths)

\* C4: after any sequence of train_incremental and train_full calls, successful
\* or failing, the identity names are pairwise distinct, each label is the index
\* of its identity, the labels are exactly [0, len(identities)) and
\* next_label = len(identity_list).
Theorem_C4 == EntreLlamadas => RegistroConsistente

\* C4: a failing train_incremental has returned after it added a second
\* identity to the registry.
Witness_C4 ==
    \E t \in Hilos :
        /\ pc[t] = "fin"
        /\ frame[t].op = "incremental"
        /\ frame[t].ret = "fallo"
        /\ Len(frame[t].antes.image_paths) = 1
        /\ Len(image_paths) = 2

\* C5: a recognition never pairs a classifier with a registry it was not trained
\* against: the name it resolves for a predicted label is the identity the
\* classifier learned under that label.
Claim_C5 ==
    \A t \in Hilos :
        (pc[t] = "r116" /\ frame[t].label >= 0) => frame[t].nombre = frame[t].visto

\* Thread t has passed the membership test of line 119 for identity n and has not
\* called the notifier yet.
PorNotificar(t, n) == pc[t] \in {"r120", "r122"} /\ frame[t].nombre = n

\* C6: when concurrent recognitions of one identity each see the window elapsed,
\* the transition to registered and the notifier call happen once in total: the
\* calls made plus the callers committed to one never exceed one.
Claim_C6 ==
    \A n \in Nombres :
        llamadas[n] + Cardinality({t \in Hilos : PorNotificar(t, n)}) <= 1

\* Thread t is inside a training operation: past its first access to the
\* holding areas, the registry or the classifier, and not yet returned.
Entrenando(t) ==
    pc[t] \in {"i196", "i208", "i221", "i222", "i225", "i226", "i229",
               "c266", "c282", "c284", "c289", "c292"}

\* C7: training operations are mutually exclusive: no two of them are under way
\* at the same time.
Claim_C7 == \A t, u \in Hilos : (Entrenando(t) /\ Entrenando(u)) => t = u

\* C8: a train_incremental that fails for lack of training data leaves the
\* classifier, the identity list, the label mapping and next_label as they were.
Claim_C8 ==
    \A t \in Hilos :
        (pc[t] = "fin" /\ frame[t].op = "incremental" /\ frame[t].ret = "fallo") =>
            /\ face_recognizer = frame[t].antes.face_recognizer
            /\ image_paths = frame[t].antes.image_paths
            /\ label_dict = frame[t].antes.label_dict
            /\ next_label = frame[t].antes.next_label

\* Thread t stands at the end of a train_full that found no holding area.
CompletoSinAreas(t) ==
    /\ pc[t] = "fin"
    /\ frame[t].op = "completo"
    /\ frame[t].people_list = <<>>

\* C9: train_full with no holding area fails with the no-training-data outcome
\* and leaves the classifier, the registry and the persisted artifact unchanged.
Theorem_C9 ==
    \A t \in Hilos :
        CompletoSinAreas(t) => (frame[t].ret = "fallo" /\ Estado = frame[t].antes)

\* C9: train_full has failed for want of holding areas on a trained, persisted
\* model.
Witness_C9 ==
    \E t \in Hilos :
        /\ CompletoSinAreas(t)
        /\ face_recognizer # {}
        /\ model_file.existe
        /\ image_paths # <<>>

\* C10: recognize answers recognized only for a distance below the threshold and
\* a label with 0 <= label < len(identities); for any other predicted label it
\* answers unknown and resolves no name.
Claim_C10 ==
    \A t \in Hilos :
        (pc[t] = "fin" /\ frame[t].op = "reconocer" /\ frame[t].predijo) =>
            LET valido == 0 <= frame[t].label /\ frame[t].label < Len(image_paths) IN
            /\ frame[t].ret = "reconocido" =>
                   (frame[t].confianza < confianza_threshold /\ valido)
            /\ ~valido => (frame[t].ret = "desconocido" /\ frame[t].nombre = "")

\* Thread t has served the recognition request that follows a successful
\* train_incremental(n), with a photo that holds a face.
TrasEntrenar(t, n) ==
    /\ ultima = n
    /\ pc[t] = "fin"
    /\ frame[t].op = "reconocer"
    /\ frame[t].imagen = "rostro"

\* The deterministic classifier has matched the photo of thread t with a sample
\* of identity n, at a distance below the threshold.
DobleReconoce(t, n) ==
    /\ frame[t].predijo
    /\ frame[t].visto = n
    /\ frame[t].confianza < confianza_threshold

EntrenoBien(t, op) ==
    /\ pc[t] = "fin"
    /\ frame[t].op = op
    /\ frame[t].ret = "ok"

\* The holding areas a train_full request of locals f listed.
Listadas(f) == {f.people_list[i] : i \in 1..Len(f.people_list)}

\* C12: after a successful train_incremental(n) the holding area of n holds no
\* file and is removed, and after a successful train_full every holding area it
\* listed is removed with all its files.
Theorem_C12 ==
    \A t \in Hilos :
        /\ EntrenoBien(t, "incremental") => frame[t].estudiante \notin DOMAIN data
        /\ EntrenoBien(t, "completo") => Listadas(frame[t]) \cap DOMAIN data = {}

\* C12: a train_full over the holding area of one identity has succeeded, right
\* after a successful train_incremental of the other.
Witness_C12 ==
    \E t \in Hilos :
        /\ EntrenoBien(t, "completo")
        /\ Listadas(frame[t]) # {}
        /\ ultima \in Nombres \ Listadas(frame[t])

\* The pending photos of store d, as <<identity, key>>.
Fotos(d) == UNION {{<<n, k>> : k \in d[n]} : n \in DOMAIN d}

\* Photo p is in the batch that some training request under way has passed to
\* classifier.update or classifier.train with success.
EnLoteEntrenado(p) == \E t \in Hilos : p \in frame[t].faces /\ frame[t].usado # ""

\* C13: under any interleaving of enroll_photo, train_incremental and
\* train_full, every photo that a step removes from a holding area is in the
\* batch of a training call that succeeded.
Claim_C13 == [][\A p \in Fotos(data) \ Fotos(data') : EnLoteEntrenado(p)]_vars

\* C14: a train_incremental call that returns has kept every identity the
\* classifier had learned before it, and it has used classifier.train, which
\* replaces the learned state by the batch, only on a classifier without prior
\* state.
Claim_C14 ==
    \A t \in Hilos :
        (pc[t] = "fin" /\ frame[t].op = "incremental" /\ frame[t].ret # "error") =>
            /\ frame[t].antes.face_recognizer \subseteq face_recognizer
            /\ frame[t].usado = "train" => frame[t].antes.face_recognizer = {}

\* The identities whose holding area gave at least one patch to the batch of a
\* request of locals f.
Aportaron(f) == {p[1] : p \in f.faces}

\* C15: a successful train_full leaves as registry the listed holding areas that
\* are not empty, in listing order, with label = index: an identity is in the
\* new registry if and only if its area gave at least one patch to the batch, and
\* every label of the registry is one the classifier was trained on.
Claim_C15 ==
    \A t \in Hilos :
        EntrenoBien(t, "completo") =>
            /\ {image_paths[i] : i \in 1..Len(image_paths)} = Aportaron(frame[t])
            /\ \A i \in 1..Len(image_paths) : label_dict[image_paths[i]] = i - 1
            /\ {label_dict[n] : n \in DOMAIN label_dict} \subseteq
                   {p[1] : p \in face_recognizer}

\* Thread t is in a train_incremental request, past the allocation of lines
\* 195-201.
TrasAsignar(t) ==
    /\ frame[t].op = "incremental"
    /\ pc[t] \in {"i208", "i221", "i222", "i225", "i226", "i229", "fin"}
    /\ frame[t].ret # "sin_carpeta"

\* C16, for one request: the identities that were in the registry keep their
\* labels; an identity already present gets its existing label and no second
\* entry; a new identity is appended with the label len(identity_list) as it was
\* before the call.
AsignacionEstable(t) ==
    LET a == frame[t].antes
        n == frame[t].estudiante IN
    /\ \A m \in DOMAIN a.label_dict :
            m \in DOMAIN label_dict /\ label_dict[m] = a.label_dict[m]
    /\ IF n \in DOMAIN a.label_dict
       THEN /\ frame[t].label = a.label_dict[n]
            /\ image_paths = a.image_paths
            /\ next_label = a.next_label
       ELSE /\ frame[t].label = Len(a.image_paths)
            /\ image_paths = Append(a.image_paths, n)
            /\ n \in DOMAIN label_dict
            /\ label_dict[n] = Len(a.image_paths)

\* Some train_full request stands at the replacement of the registry, lines
\* 284-286.
ReemplazaRegistro == \E t \in Hilos : pc[t] = "c284"

\* C16, between states: the label of an identity of the registry changes only
\* in a train_full.
SoloCompletoCambia ==
    \A m \in DOMAIN label_dict :
        (m \in DOMAIN label_dict' /\ label_dict'[m] = label_dict[m]) \/ ReemplazaRegistro

\* C16: labels are position-stable under incremental training, and only
\* train_full changes the label of an identity of the registry.
Theorem_C16 ==
    [][SoloCompletoCambia /\ \A t \in Hilos : TrasAsignar(t)' => AsignacionEstable(t)']_vars

\* C16: both cases have happened in one registry: a train_incremental for the
\* second identity of the registry has found it present and given it label 1
\* again.
Witness_C16 ==
    \E t \in Hilos :
        /\ TrasAsignar(t)
        /\ frame[t].estudiante \in DOMAIN frame[t].antes.label_dict
        /\ frame[t].label = 1
        /\ Len(image_paths) = 2

\* Thread t stands at the end of a recognition request whose photo was decoded.
ReconocioDecodable(t) ==
    /\ pc[t] = "fin"
    /\ frame[t].op = "reconocer"
    /\ frame[t].imagen # "ilegible"

\* C17: for every decodable photo, recognize answers no_face if and only if
\* detection found no box, and then the classifier is not consulted.
Theorem_C17 ==
    \A t \in Hilos :
        ReconocioDecodable(t) =>
            /\ frame[t].ret = "sin_rostro" <=> Detectados(frame[t].imagen) = 0
            /\ Detectados(frame[t].imagen) = 0 => ~frame[t].predijo

\* C17: a photo without a face has been answered no_face by a service whose
\* classifier is trained.
Witness_C17 ==
    \E t \in Hilos :
        /\ ReconocioDecodable(t)
        /\ Detectados(frame[t].imagen) = 0
        /\ frame[t].ret = "sin_rostro"
        /\ face_recognizer # {}

\* The answer of line 112-135 for the prediction of thread t under threshold u.
DecisionCon(t, u) == Decidir(frame[t].label, frame[t].confianza, u, image_paths)

\* C18: for the predicted (label, distance) of a recognition and the registry it
\* runs against, lowering the acceptance threshold never turns unknown into
\* recognized, and raising it never turns recognized into unknown.
Theorem_C18 ==
    \A t \in Hilos :
        (frame[t].op = "reconocer" /\ frame[t].predijo) =>
            \A bajo, alto \in Umbrales :
                bajo <= alto =>
                    /\ DecisionCon(t, alto) = "desconocido" =>
                           DecisionCon(t, bajo) # "reconocido"
                    /\ DecisionCon(t, bajo) = "reconocido" =>
                           DecisionCon(t, alto) # "desconocido"

\* C18: a recognition has answered recognized under the configured threshold for
\* a prediction that a lower threshold rejects.
Witness_C18 ==
    \E t \in Hilos :
        /\ pc[t] = "fin"
        /\ frame[t].op = "reconocer"
        /\ frame[t].predijo
        /\ frame[t].ret = "reconocido"
        /\ DecisionCon(t, confianza_threshold) = "reconocido"
        /\ \E bajo \in Umbrales : bajo < confianza_threshold /\ DecisionCon(t, bajo) = "desconocido"

\* The step taken is one of reset_reconocimientos: line 318 or line 319.
PasoDeReset ==
    \E t \in Hilos :
        \/ pc[t] = "idle" /\ pc'[t] = "x319"
        \/ pc[t] = "x319" /\ pc'[t] = "fin"

\* C19: reset_session changes only SessionState: the classifier, the identity
\* list, the label mapping, next_label, the artifact and the holding areas are
\* after each of its steps what they were before it.
Theorem_C19 == [][PasoDeReset => (Estado' = Estado /\ data' = data)]_vars

\* C19: a reset has ended on a trained model with a registered identity and a
\* pending photo, and has started a session after one in which the notifier was
\* called.
Witness_C19 ==
    \E t \in Hilos :
        /\ pc[t] = "fin"
        /\ frame[t].op = "reset"
        /\ face_recognizer # {}
        /\ image_paths # <<>>
        /\ Fotos(data) # {}
        /\ previas # {}

\* C20: a train_full that fails after it listed at least one holding area
\* leaves the classifier and the registry as they were and deletes no pending
\* photo.
Claim_C20 ==
    \A t \in Hilos :
        (/\ pc[t] = "fin"
         /\ frame[t].op = "completo"
         /\ frame[t].ret # "ok"
         /\ frame[t].people_list # <<>>) =>
            /\ face_recognizer = frame[t].antes.face_recognizer
            /\ image_paths = frame[t].antes.image_paths
            /\ label_dict = frame[t].antes.label_dict
            /\ next_label = frame[t].antes.next_label
            /\ frame[t].faces \subseteq Fotos(data)

\* Thread t takes the step that ends an enrollment request with success.
GuardaBien(t) ==
    /\ pc[t] = "g174"
    /\ pc'[t] = "fin"
    /\ frame'[t].ret = "ok"

\* C21: every successful enroll_photo stores its patch under a key that is new
\* in the holding area of its identity: the area gains exactly one patch and no
\* patch is overwritten, also for enrollments of one identity at the same clock
\* reading or by two threads at once.
Claim_C21 ==
    [][\A t \in Hilos :
          GuardaBien(t) =>
              LET n == frame[t].estudiante IN
              /\ n \in DOMAIN data
              /\ n \in DOMAIN data'
              /\ Clave(frame'[t].ahora) \notin data[n]
              /\ Cardinality(data'[n]) = Cardinality(data[n]) + 1]_vars

\* Thread t takes the step that ends an enrollment request in failure: the photo
\* could not be decoded, or no face was found in it.
GuardaMal(t) ==
    /\ pc[t] = "idle"
    /\ pc'[t] = "fin"
    /\ frame'[t].op = "guardar"
    /\ frame'[t].ret = "fallo"

\* C22: an enroll_photo that fails leaves the pending-photo store as it was: no
\* holding area and no patch is created, so train_full lists and
\* train_incremental accepts the same holding areas as before the call.
Claim_C22 == [][\A t \in Hilos : GuardaMal(t) => data' = data]_vars

\* The identity list a process holds resolves every label its classifier was
\* trained on to the identity that was trained under it.
RegistroDelModelo(modelo, paths) ==
    \A p \in modelo : p[1] < Len(paths) /\ PyIndex(paths, p[1]) = p[2]

\* C23: when a process starts on a persisted artifact, every label the
\* persisted classifier was trained on resolves in the reloaded identity list to
\* the identity it stood for in the process that persisted it.
Claim_C23 ==
    [][(Reiniciar /\ model_file.existe) => RegistroDelModelo(face_recognizer', image_paths')]_vars

====
